---------------------------- MODULE Spec2Model ----------------------------
(***************************************************************************)
(* PyPal chatbot (src/chatbot.py): the session state of PyPalChatbot, the   *)
(* handlers handle_send and on_closing, the response engine                 *)
(* generate_response and the name extractor detect_name_in_message.         *)
(*                                                                          *)
(* Text is a sequence of pieces.  Text typed by the user is a sequence of   *)
(* one-character strings, so that substring search, strip, split, lower,    *)
(* title and isalpha work on characters as they do in Python.  A string     *)
(* literal of the program is kept as one piece, an emoji of a literal being *)
(* written as its name in brackets.                                         *)
(***************************************************************************)
EXTENDS Integers, Sequences, FiniteSets, TLC

(***************************************************************************)
(* Characters and the str methods the program uses.                         *)
(***************************************************************************)
LowerLetters ==
    << "a", "b", "c", "d", "e", "f", "g", "h", "i", "j", "k", "l", "m",
       "n", "o", "p", "q", "r", "s", "t", "u", "v", "w", "x", "y", "z" >>

UpperLetters ==
    << "A", "B", "C", "D", "E", "F", "G", "H", "I", "J", "K", "L", "M",
       "N", "O", "P", "Q", "R", "S", "T", "U", "V", "W", "X", "Y", "Z" >>

LetterIdx == 1 .. Len(LowerLetters)

Whitespace == { " ", "\t" }

IsLowerChar(c) == \E i \in LetterIdx : LowerLetters[i] = c

IsUpperChar(c) == \E i \in LetterIdx : UpperLetters[i] = c

IsAlphaChar(c) == IsLowerChar(c) \/ IsUpperChar(c)

lower_char(c) ==
    IF IsUpperChar(c)
    THEN LowerLetters[CHOOSE i \in LetterIdx : UpperLetters[i] = c]
    ELSE c

upper_char(c) ==
    IF IsLowerChar(c)
    THEN UpperLetters[CHOOSE i \in LetterIdx : LowerLetters[i] = c]
    ELSE c

\* The absent name: self.user_name = None.  The program only ever tests a
\* name for truth, and None and the empty string are both false.
None == << >>

\* str.lower()
lower(s) == [i \in 1 .. Len(s) |-> lower_char(s[i])]

\* str.title(): a letter that follows a non-letter (or starts the text) is
\* upper-cased, every other letter is lower-cased.
title(s) ==
    [i \in 1 .. Len(s) |->
        IF i = 1 \/ ~IsAlphaChar(s[i - 1])
        THEN upper_char(s[i])
        ELSE lower_char(s[i])]

\* str.isalpha(): non-empty and every character a letter.
isalpha(s) == s # << >> /\ \A i \in 1 .. Len(s) : IsAlphaChar(s[i])

RECURSIVE lstrip(_, _)
lstrip(s, chars) ==
    IF s # << >> /\ Head(s) \in chars THEN lstrip(Tail(s), chars) ELSE s

RECURSIVE rstrip(_, _)
rstrip(s, chars) ==
    IF s # << >> /\ s[Len(s)] \in chars
    THEN rstrip(SubSeq(s, 1, Len(s) - 1), chars)
    ELSE s

\* str.strip(chars): the characters of chars are removed from both ends.
strip(s, chars) == rstrip(lstrip(s, chars), chars)

\* The characters of the argument of strip('.,!?').
NamePunctuation == { ".", ",", "!", "?" }

\* The first whitespace-delimited token of s, and what follows it.
RECURSIVE first_token(_)
first_token(s) ==
    IF s = << >> \/ Head(s) \in Whitespace
    THEN << >>
    ELSE << Head(s) >> \o first_token(Tail(s))

\* str.split(): the whitespace-delimited tokens, none of them empty.
RECURSIVE split(_)
split(s) ==
    LET t == lstrip(s, Whitespace)
        w == first_token(t)
    IN  IF t = << >>
        THEN << >>
        ELSE << w >> \o split(SubSeq(t, Len(w) + 1, Len(t)))

\* str.replace(' ', '')
remove_spaces(s) == SelectSeq(s, LAMBDA c : c # " ")

\* Python's "pattern in text" on strings: substring containment.
contains(text, pattern) ==
    \E i \in 1 .. (Len(text) - Len(pattern) + 1) :
        SubSeq(text, i, i + Len(pattern) - 1) = pattern

\* str.find(pattern), for a pattern that occurs: the lowest 0-based index.
find(text, pattern) ==
    (CHOOSE i \in 1 .. (Len(text) - Len(pattern) + 1) :
        /\ SubSeq(text, i, i + Len(pattern) - 1) = pattern
        /\ \A j \in 1 .. (i - 1) :
              SubSeq(text, j, j + Len(pattern) - 1) # pattern) - 1

\* any(p in text for p in phrases)
any_in(text, phrases) ==
    \E k \in 1 .. Len(phrases) : contains(text, phrases[k])

(***************************************************************************)
(* The phrase lists of the detectors, lower-case, in the order of the       *)
(* source.                                                                  *)
(***************************************************************************)
greetings ==
    << << "h", "i" >>,
       << "h", "e", "l", "l", "o" >>,
       << "h", "e", "y" >>,
       << "h", "i", "y", "a" >>,
       << "g", "o", "o", "d", " ", "m", "o", "r", "n", "i", "n", "g" >>,
       << "g", "o", "o", "d", " ", "a", "f", "t", "e", "r", "n", "o", "o", "n" >>,
       << "g", "o", "o", "d", " ", "e", "v", "e", "n", "i", "n", "g" >>,
       << "s", "u", "p" >>,
       << "y", "o" >> >>

how_are_you_phrases ==
    << << "h", "o", "w", " ", "a", "r", "e", " ", "y", "o", "u" >>,
       << "h", "o", "w", " ", "d", "o", " ", "y", "o", "u", " ", "d", "o" >>,
       << "h", "o", "w", " ", "a", "r", "e", " ", "t", "h", "i", "n", "g", "s" >>,
       << "h", "o", "w", "'", "s", " ", "i", "t", " ", "g", "o", "i", "n", "g" >>,
       << "h", "o", "w", " ", "y", "o", "u", " ", "d", "o", "i", "n", "g" >> >>

time_keywords ==
    << << "t", "i", "m", "e" >>,
       << "c", "l", "o", "c", "k" >>,
       << "w", "h", "a", "t", " ", "t", "i", "m", "e", " ", "i", "s", " ", "i", "t" >>,
       << "c", "u", "r", "r", "e", "n", "t", " ", "t", "i", "m", "e" >>,
       << "t", "i", "m", "e", " ", "i", "s", " ", "i", "t" >>,
       << "w", "h", "a", "t", " ", "t", "i", "m", "e" >> >>

goodbye_phrases ==
    << << "b", "y", "e" >>,
       << "g", "o", "o", "d", "b", "y", "e" >>,
       << "s", "e", "e", " ", "y", "o", "u" >>,
       << "f", "a", "r", "e", "w", "e", "l", "l" >>,
       << "e", "x", "i", "t" >>,
       << "q", "u", "i", "t" >>,
       << "s", "t", "o", "p" >>,
       << "c", "l", "o", "s", "e" >>,
       << "e", "n", "d" >> >>

name_patterns ==
    << << "m", "y", " ", "n", "a", "m", "e", " ", "i", "s" >>,
       << "i", "'", "m" >>,
       << "i", " ", "a", "m" >>,
       << "c", "a", "l", "l", " ", "m", "e" >>,
       << "n", "a", "m", "e", "'", "s" >>,
       << "i", " ", "g", "o", " ", "b", "y" >> >>

(***************************************************************************)
(* The intent detectors: a phrase of the list occurs in the lower-cased     *)
(* input.                                                                   *)
(***************************************************************************)
detect_greeting(user_input) == any_in(lower(user_input), greetings)

detect_how_are_you(user_input) == any_in(lower(user_input), how_are_you_phrases)

detect_time_request(user_input) == any_in(lower(user_input), time_keywords)

detect_goodbye(user_input) ==
    any_in(strip(lower(user_input), Whitespace), goodbye_phrases)

(***************************************************************************)
(* detect_name_in_message.                                                  *)
(***************************************************************************)
\* The body of the loop for one pattern that occurs in user_lower: the first
\* word after the first occurrence of the pattern, stripped of .,!? on both
\* ends, title-cased when it is alphabetic; None when the loop goes on.
name_after_pattern(user_input, user_lower, pattern) ==
    LET start_idx == find(user_lower, pattern) + Len(pattern)
        name_part == strip(SubSeq(user_input, start_idx + 1, Len(user_input)),
                           Whitespace)
    IN  IF name_part # << >>
        THEN LET potential_name == strip(split(name_part)[1], NamePunctuation)
             IN  IF isalpha(potential_name) THEN title(potential_name) ELSE None
        ELSE None

\* The statements after the loop: the whole message as the name.
whole_message_name(user_input) ==
    IF Len(split(user_input)) <= 2 /\ isalpha(remove_spaces(user_input))
    THEN title(user_input)
    ELSE None

\* The loop ending at the first pattern that occurs, whether or not a name
\* follows it.
RECURSIVE scan_name_patterns_first_match(_, _, _)
scan_name_patterns_first_match(user_input, user_lower, k) ==
    IF k > Len(name_patterns)
    THEN whole_message_name(user_input)
    ELSE IF contains(user_lower, name_patterns[k])
         THEN name_after_pattern(user_input, user_lower, name_patterns[k])
         ELSE scan_name_patterns_first_match(user_input, user_lower, k + 1)

\* The loop over name_patterns from index k on; a pattern that yields no
\* name does not end the loop, and the loop's end falls through to the
\* whole-message rule.
RECURSIVE scan_name_patterns(_, _, _)
scan_name_patterns(user_input, user_lower, k) ==
    IF k > Len(name_patterns)
    THEN whole_message_name(user_input)
    ELSE LET pattern == name_patterns[k]
             found == IF contains(user_lower, pattern)
                      THEN name_after_pattern(user_input, user_lower, pattern)
                      ELSE None
         IN  IF found # None
             THEN found
             ELSE scan_name_patterns(user_input, user_lower, k + 1)

detect_name_in_message(message) ==
    LET user_input == strip(message, Whitespace)
        user_lower == lower(user_input)
    IN  scan_name_patterns(user_input, user_lower, 1)

(***************************************************************************)
(* The reply texts.  A literal is one piece; the name is spliced in as the  *)
(* f-string does.                                                           *)
(***************************************************************************)
bot_name == << "PyPal" >>

\* The choices of random.choice(xs).
choices(xs) == { xs[i] : i \in 1 .. Len(xs) }

welcome_messages ==
    << << "Hello! I'm " >> \o bot_name \o << ", your friendly AI assistant! [smile]" >>,
       << "Hi there! " >> \o bot_name \o << " here, ready to help and chat!" >>,
       << "Welcome! I'm " >> \o bot_name \o << ", your personal chatbot companion!" >> >>

name_request == << "What's your name? I'd love to get to know you better!" >>

full_welcome(welcome) == welcome \o << "\n" >> \o name_request

\* The readings of datetime.datetime.now(), as strftime formats them after
\* "It's currently ".
Clock == { "09:05 AM on November 03, 2026", "11:59 PM on December 31, 2026" }

get_current_time(now) == << "It's currently ", now >>

\* The name slot left empty whatever the name.
name_slot_empty(user_name) == << >>

\* The expression  ', ' + self.user_name if self.user_name else ''
name_slot(user_name) ==
    IF user_name # None THEN << ", " >> \o user_name ELSE << >>

name_responses(user_name) ==
    << << "Nice to meet you, " >> \o user_name \o << "! [smile] How can I help you today?" >>,
       << "Great to meet you, " >> \o user_name \o << "! I'm excited to chat with you!" >>,
       << "Hello " >> \o user_name
           \o << "! What a lovely name. What would you like to talk about?" >>,
       << "Wonderful, " >> \o user_name
           \o << "! Thanks for introducing yourself. How are you doing today?" >> >>

no_name_response ==
    << "I didn't quite catch your name there. That's okay though! What would you like to chat about? You can always tell me your name later! [smile]" >>

goodbye_responses(user_name) ==
    << << "Goodbye" >> \o name_slot(user_name)
           \o << "! It was wonderful chatting with you! [wave]" >>,
       << "See you later" >> \o name_slot(user_name) \o << "! Have a fantastic day! [smile]" >>,
       << "Bye" >> \o name_slot(user_name) \o << "! Thanks for the great conversation!" >>,
       << "Take care" >> \o name_slot(user_name) \o << "! Chat with me again anytime!" >> >>

time_responses(user_name, now) ==
    << get_current_time(now),
       get_current_time(now) \o << " [alarm clock]" >>,
       << "Sure thing" >> \o name_slot(user_name) \o << "! " >> \o get_current_time(now) >>

greeting_responses(user_name) ==
    IF user_name # None
    THEN << << "Hello again, " >> \o user_name \o << "! How can I help you? [smile]" >>,
            << "Hi " >> \o user_name \o << "! Great to hear from you!" >>,
            << "Hey there, " >> \o user_name \o << "! What's on your mind?" >>,
            << "Hello " >> \o user_name \o << "! How are you doing today?" >> >>
    ELSE << << "Hello there! How can I help you today? [smile]" >>,
            << "Hi! Great to meet you! What's on your mind?" >>,
            << "Hey! I'm here and ready to chat!" >>,
            << "Hello! How are you doing today?" >> >>

how_are_you_responses(user_name) ==
    << << "I'm doing great, thank you for asking" >> \o name_slot(user_name)
           \o << "! How are you?" >>,
       << "I'm wonderful" >> \o name_slot(user_name)
           \o << "! Thanks for checking in. How about you?" >>,
       << "I'm having a fantastic day" >> \o name_slot(user_name)
           \o << "! How are things with you?" >>,
       << "I'm doing well" >> \o name_slot(user_name)
           \o << "! Ready to help with whatever you need!" >> >>

default_responses(user_name) ==
    IF user_name # None
    THEN << << "That's interesting, " >> \o user_name \o << "! Tell me more about that." >>,
            << "I'm not sure I understand, " >> \o user_name
                \o << ", but I'm here to listen!" >>,
            << "Hmm, " >> \o user_name \o << ", I'd love to learn more about what you mean." >>,
            << "I'm still learning, " >> \o user_name
                \o << "! Can you try asking in a different way?" >>,
            << "That's cool, " >> \o user_name
                \o << "! What else would you like to talk about?" >>,
            << "I'm here to chat, " >> \o user_name
                \o << "! Try asking me about the time, or just say hello!" >> >>
    ELSE << << "That's interesting! Tell me more about that." >>,
            << "I'm not sure I understand, but I'm here to listen!" >>,
            << "Hmm, I'd love to learn more about what you mean." >>,
            << "I'm still learning! Can you try asking in a different way?" >>,
            << "That's cool! What else would you like to talk about?" >>,
            << "I'm here to chat! Try asking me about the time, or just say hello!" >> >>

(***************************************************************************)
(* generate_response: the outcomes of one call, one per choice of           *)
(* random.choice: the reply returned and the session fields after the call. *)
(***************************************************************************)
Outcome(name, started, reply) ==
    [ user_name |-> name, conversation_started |-> started, response |-> reply ]

\* collect_name as it would be without line 329: a first turn that finds no
\* name does not start the conversation.
collect_name_not_started(user_input) ==
    LET potential_name == detect_name_in_message(user_input)
    IN  IF potential_name # None
        THEN { Outcome(potential_name, TRUE, r) :
                   r \in choices(name_responses(potential_name)) }
        ELSE { Outcome(None, FALSE, no_name_response) }

\* Lines 316-330: name collection on the first interaction.
collect_name(user_input) ==
    LET potential_name == detect_name_in_message(user_input)
    IN  IF potential_name # None
        THEN { Outcome(potential_name, TRUE, r) :
                   r \in choices(name_responses(potential_name)) }
        ELSE { Outcome(None, TRUE, no_name_response) }

\* The intent chain with the greeting tested before the farewell.
intent_responses_greeting_first(self_user_name, user_input, now) ==
    IF detect_greeting(user_input)
    THEN greeting_responses(self_user_name)
    ELSE IF detect_goodbye(user_input)
    THEN goodbye_responses(self_user_name)
    ELSE IF detect_time_request(user_input)
    THEN time_responses(self_user_name, now)
    ELSE IF detect_how_are_you(user_input)
    THEN how_are_you_responses(self_user_name)
    ELSE default_responses(self_user_name)

\* Lines 332-400: the if / elif chain of the intents.
intent_responses(self_user_name, user_input, now) ==
    IF detect_goodbye(user_input)
    THEN goodbye_responses(self_user_name)
    ELSE IF detect_time_request(user_input)
    THEN time_responses(self_user_name, now)
    ELSE IF detect_greeting(user_input)
    THEN greeting_responses(self_user_name)
    ELSE IF detect_how_are_you(user_input)
    THEN how_are_you_responses(self_user_name)
    ELSE default_responses(self_user_name)

\* generate_response collecting a name on every turn whose input yields one.
generate_response_always_collects(self_user_name, self_conversation_started, user_input, now) ==
    IF detect_name_in_message(user_input) # None \/ ~self_conversation_started
    THEN collect_name(user_input)
    ELSE { Outcome(self_user_name, self_conversation_started, r) :
               r \in choices(intent_responses(self_user_name, user_input, now)) }

\* generate_response with the test of line 316 reduced to "not
\* self.user_name": extraction is retried until a name is found.
generate_response_retries(self_user_name, self_conversation_started, user_input, now) ==
    IF self_user_name = None
    THEN collect_name(user_input)
    ELSE { Outcome(self_user_name, self_conversation_started, r) :
               r \in choices(intent_responses(self_user_name, user_input, now)) }

\* generate_response with the farewell tested before the name collection.
generate_response_goodbye_first(self_user_name, self_conversation_started, user_input, now) ==
    IF detect_goodbye(user_input)
    THEN { Outcome(self_user_name, TRUE, r) :
               r \in choices(goodbye_responses(self_user_name)) }
    ELSE IF self_user_name = None /\ ~self_conversation_started
    THEN collect_name(user_input)
    ELSE { Outcome(self_user_name, self_conversation_started, r) :
               r \in choices(intent_responses(self_user_name, user_input, now)) }

\* generate_response forgetting the session when the user says goodbye.
generate_response_resets_on_goodbye(self_user_name, self_conversation_started, user_input, now) ==
    IF self_user_name = None /\ ~self_conversation_started
    THEN collect_name(user_input)
    ELSE { Outcome(IF detect_goodbye(user_input) THEN None ELSE self_user_name,
                   self_conversation_started /\ ~detect_goodbye(user_input), r) :
               r \in choices(intent_responses(self_user_name, user_input, now)) }

generate_response(self_user_name, self_conversation_started, user_input, now) ==
    IF self_user_name = None /\ ~self_conversation_started
    THEN collect_name(user_input)
    ELSE { Outcome(self_user_name, self_conversation_started, r) :
               r \in choices(intent_responses(self_user_name, user_input, now)) }

(***************************************************************************)
(* The session: the fields of PyPalChatbot, the chat window's text, the     *)
(* lines this session appended to the log file, whether the log file can be *)
(* written, the message box that is open (a handler waits in it until the   *)
(* user answers) and whether the window still exists.  The timestamps of    *)
(* the display and of the log lines are left out.  probe holds the message  *)
(* and the result of a call of detect_name_in_message on its own            *)
(* (specification NameSpec).                                                *)
(***************************************************************************)
VARIABLES user_name, conversation_started, chat_display, log_file,
          log_writable, dialog, running, probe

vars == << user_name, conversation_started, chat_display, log_file,
           log_writable, dialog, running, probe >>

\* Turns of conversation a session is followed for.
MaxTurns == 2

\* Pieces a probed message is built from, at most.
MaxChunks == 4

\* The texts the user may have in the entry field when a send happens.
Typed ==
    { << >>,
      << " ", "\t", " " >>,
      << "i", "'", "m", " ", "b", "o", "b", "!" >>,
      << "h", "i", ",", " ", "b", "y", "e" >>,
      << "w", "h", "a", "t", " ", "t", "i", "m", "e", " ", "i", "s", " ", "i", "t", "?" >>,
      << "h", "o", "w", "'", "s", " ", "i", "t", " ", "g", "o", "i", "n", "g" >>,
      << "h", "e", "l", "l", "o" >>,
      << "c", "a", "l", "l", " ", "m", "e" >>,
      << "M", "y", " ", "n", "a", "m", "e", " ", "i", "s", " ", "A", "l" >>,
      << "t", "i", "m", "e", " ", "t", "o", " ", "q", "u", "i", "t" >>,
      << "h", "o", "w", " ", "a", "r", "e", " ", "y", "o", "u" >> }

\* The pieces the probed messages are built from: two lead-in phrases, a
\* plain name, names with punctuation before or after, a word with a digit
\* and a word of punctuation only.
NameChunks ==
    { << "m", "y", " ", "n", "a", "m", "e", " ", "i", "s" >>,
      << "c", "a", "l", "l", " ", "m", "e" >>,
      << "b", "o", "b" >>,
      << "A", "L", "!" >>,
      << "?", "s", "a", "m" >>,
      << "b", "0", "b" >>,
      << "!", "!" >> }

RECURSIVE join(_)
join(words) ==
    IF Len(words) = 1
    THEN words[1]
    ELSE words[1] \o << " " >> \o join(Tail(words))

\* The messages detect_name_in_message is probed with: up to MaxChunks
\* pieces, a space between two pieces.
NameInputs ==
    UNION { { join(w) : w \in [1 .. n -> NameChunks] } : n \in 1 .. MaxChunks }

\* The body of log_message: the line is opened for and appended to the file
\* when the file can be written; otherwise the exception is caught, reported
\* on stdout and the file is left as it was.
append_line(log, writable, sender, message) ==
    IF writable
    THEN Append(log, [ sender |-> sender, message |-> message ])
    ELSE log

\* log_message: one line appended to the file; a failed write is caught,
\* reported on stdout and leaves the file as it was.
log_message(log, sender, message) == append_line(log, log_writable, sender, message)

\* display_message: one block appended to the chat window, with the robot
\* icon when the sender is the bot.
display_message(display, sender, message) ==
    Append(display,
           [ icon |-> IF sender = bot_name THEN "robot" ELSE "person",
             sender |-> sender,
             message |-> message ])

NoProbe == [ input |-> << >>, done |-> FALSE, name |-> None ]

\* __init__: the fields, setup_logging and start_conversation.
SessionInit ==
    \E welcome \in choices(welcome_messages) :
        /\ log_writable \in BOOLEAN
        /\ user_name = None
        /\ conversation_started = FALSE
        /\ chat_display = display_message(<< >>, bot_name, full_welcome(welcome))
        /\ log_file =
              log_message(
                  log_message(<< >>, << "SYSTEM" >>,
                              bot_name \o << " chatbot session started" >>),
                  bot_name, full_welcome(welcome))
        /\ dialog = "none"
        /\ running = TRUE

Init == SessionInit /\ probe = NoProbe

\* The turns answered so far: the welcome and then two blocks a turn.
Turns == (Len(chat_display) - 1) \div 2

\* The test for an empty input made on the entry's text as it is typed.
send_is_rejected_unstripped(entry_text) == entry_text = << >>

\* The test of handle_send for an empty input: the entry's text, stripped of
\* blanks, is empty.
send_is_rejected(entry_text) == strip(entry_text, Whitespace) = << >>

\* handle_send with entry_text in the entry field, labelling the user's log
\* line with the name the turn has just stored.
handle_send_labels_after(entry_text, now, writable_then) ==
    LET user_message == strip(entry_text, Whitespace)
        display_name == IF user_name # None THEN user_name ELSE << "You" >>
    IN  /\ running
        /\ dialog = "none"
        /\ IF send_is_rejected(entry_text)
           THEN /\ dialog' = "Empty Message"
                /\ UNCHANGED << user_name, conversation_started, chat_display,
                                log_file, log_writable, running, probe >>
           ELSE /\ Turns < MaxTurns
                /\ \E out \in generate_response(user_name, conversation_started,
                                                user_message, now) :
                      /\ user_name' = out.user_name
                      /\ conversation_started' = out.conversation_started
                      /\ chat_display' =
                            display_message(
                                display_message(chat_display, display_name,
                                                user_message),
                                bot_name, out.response)
                      /\ log_file' =
                            append_line(
                                append_line(log_file, log_writable,
                                            IF out.user_name # None
                                            THEN out.user_name ELSE << "You" >>,
                                            user_message),
                                writable_then, bot_name, out.response)
                /\ log_writable' = writable_then
                /\ UNCHANGED << dialog, running, probe >>

\* handle_send with entry_text in the entry field.  A blank text opens the
\* "Empty Message" warning and nothing else happens; any other text is
\* displayed, logged, answered by generate_response, and the answer is
\* displayed and logged.  The entry field itself is not part of the state:
\* its text is the step's input.  A session is followed for MaxTurns turns.
\* Each of the two log lines is written by its own open of the file: the
\* first finds the file as log_writable says, the second as writable_then
\* says, which is how the handler leaves it.
handle_send_logging(entry_text, now, writable_then) ==
    LET user_message == strip(entry_text, Whitespace)
        display_name == IF user_name # None THEN user_name ELSE << "You" >>
    IN  /\ running
        /\ dialog = "none"
        /\ IF send_is_rejected(entry_text)
           THEN /\ dialog' = "Empty Message"
                /\ UNCHANGED << user_name, conversation_started, chat_display,
                                log_file, log_writable, running, probe >>
           ELSE /\ Turns < MaxTurns
                /\ \E out \in generate_response(user_name, conversation_started,
                                                user_message, now) :
                      /\ user_name' = out.user_name
                      /\ conversation_started' = out.conversation_started
                      /\ chat_display' =
                            display_message(
                                display_message(chat_display, display_name,
                                                user_message),
                                bot_name, out.response)
                      /\ log_file' =
                            append_line(
                                append_line(log_file, log_writable,
                                            display_name, user_message),
                                writable_then, bot_name, out.response)
                /\ log_writable' = writable_then
                /\ UNCHANGED << dialog, running, probe >>

\* handle_send in a session whose log file stays as it is.
handle_send(entry_text, now) == handle_send_logging(entry_text, now, log_writable)

\* The user closes the warning: showwarning returns and so does handle_send.
close_warning ==
    /\ dialog = "Empty Message"
    /\ dialog' = "none"
    /\ UNCHANGED << user_name, conversation_started, chat_display, log_file,
                    log_writable, running, probe >>

\* on_closing up to its prompt: askokcancel("Quit", ...) is shown.
on_closing ==
    /\ running
    /\ dialog = "none"
    /\ dialog' = "Quit"
    /\ UNCHANGED << user_name, conversation_started, chat_display, log_file,
                    log_writable, running, probe >>

\* on_closing after the prompt: OK logs the end of the session and destroys
\* the window, Cancel leaves everything as it was.
answer_quit(ok) ==
    /\ dialog = "Quit"
    /\ dialog' = "none"
    /\ IF ok
       THEN /\ log_file' = log_message(log_file, << "SYSTEM" >>,
                                       bot_name \o << " chatbot session ended" >>)
            /\ running' = FALSE
       ELSE UNCHANGED << log_file, running >>
    /\ UNCHANGED << user_name, conversation_started, chat_display,
                    log_writable, probe >>

Send == \E entry_text \in Typed, now \in Clock : handle_send(entry_text, now)

AnswerQuit == \E ok \in BOOLEAN : answer_quit(ok)

Next == Send \/ close_warning \/ on_closing \/ AnswerQuit

\* A session; its log file is writable throughout, or not at all.
Spec == Init /\ [][Next]_vars

(***************************************************************************)
(* A session whose log file comes and goes: any single write of a line may  *)
(* fail or succeed, whatever happened to the write before it.               *)
(***************************************************************************)
\* What is typed in the sessions followed for their log.
LogTyped ==
    { << " ", "\t", " " >>,
      << "i", "'", "m", " ", "b", "o", "b", "!" >>,
      << "h", "e", "l", "l", "o" >> }

\* Between two handlers the file becomes unwritable (its directory removed,
\* the disk full, the permissions changed) or writable again: the open in
\* log_message then raises, or no longer does.
log_file_changes ==
    /\ running
    /\ dialog = "none"
    /\ log_writable' = ~log_writable
    /\ UNCHANGED << user_name, conversation_started, chat_display, log_file,
                    dialog, running, probe >>

LogSend ==
    \E entry_text \in LogTyped, now \in Clock, writable_then \in BOOLEAN :
        handle_send_logging(entry_text, now, writable_then)

LogNext == LogSend \/ close_warning \/ on_closing \/ AnswerQuit \/ log_file_changes

\* The sessions followed for their log open with the first welcome text.
LogInit ==
    /\ Init
    /\ chat_display[1].message = full_welcome(welcome_messages[1])

LogSpec == LogInit /\ [][LogNext]_vars

(***************************************************************************)
(* detect_name_in_message on its own: a message is drawn and the function   *)
(* is applied to it.                                                        *)
(***************************************************************************)
NameInit ==
    /\ SessionInit
    /\ log_writable
    /\ chat_display[1].message = full_welcome(welcome_messages[1])
    /\ \E m \in NameInputs : probe = [ input |-> m, done |-> FALSE, name |-> None ]

ApplyDetectName ==
    /\ ~probe.done
    /\ probe' = [ probe EXCEPT !.done = TRUE,
                               !.name = detect_name_in_message(probe.input) ]
    /\ UNCHANGED << user_name, conversation_started, chat_display, log_file,
                    log_writable, dialog, running >>

NameNext == ApplyDetectName

NameSpec == NameInit /\ [][NameNext]_vars

(***************************************************************************)
(* What the properties below read off the session: the block the user's     *)
(* k-th accepted message was displayed in and the block of the reply to it, *)
(* and, of a step, whether it processed a turn, the message of that turn    *)
(* (the argument of generate_response) and the reply to it.  A property     *)
(* binds them with a quantifier over a one-element set where it uses them   *)
(* more than once.                                                          *)
(***************************************************************************)
UserBlock(k) == chat_display[2 * k]

BotBlock(k) == chat_display[2 * k + 1]

TurnProcessed == Len(chat_display') = Len(chat_display) + 2

SentMessage == chat_display'[Len(chat_display') - 1].message

Reply == chat_display'[Len(chat_display')].message

\* A text with a character or a non-empty literal in it.
NonEmptyText(t) == \E i \in 1 .. Len(t) : t[i] # ""

\* A text of blanks only (the empty text included).
IsBlank(t) == \A i \in 1 .. Len(t) : t[i] \in Whitespace

\* part occurs in text, piece by piece.
HasPart(text, part) ==
    \E i \in 1 .. (Len(text) - Len(part) + 1) :
        \A j \in 1 .. Len(part) : text[i + j - 1] = part[j]

\* C1: the first turn of a session (user_name = None, conversation_started
\* false), given any non-empty input, is answered with a non-empty reply and
\* leaves conversation_started true, whether or not a name was extracted.
C1_FirstTurnStartsConversation ==
    [][ (TurnProcessed /\ user_name = None /\ ~conversation_started) =>
            /\ conversation_started'
            /\ NonEmptyText(Reply)
            /\ chat_display'[Len(chat_display')].sender = bot_name ]_vars

\* C1's case: a first turn that extracted no name has been processed.
C1_Witness ==
    /\ Turns = 1
    /\ user_name = None
    /\ conversation_started
    /\ ~IsBlank(UserBlock(1).message)

\* C2: once user_name holds a name, no step of the session changes or
\* clears it.
C2_NameNeverChanges ==
    [][user_name # None => user_name' = user_name]_vars

\* C2's case: a name is stored and a later turn has stated another name with
\* a lead-in phrase.
C2_Witness ==
    /\ Turns >= 2
    /\ user_name # None
    /\ detect_name_in_message(UserBlock(2).message) # None
    /\ detect_name_in_message(UserBlock(2).message) # user_name
    /\ any_in(lower(UserBlock(2).message), name_patterns)

\* The intent of a message as C3 and C5 state it: the first detector that
\* matches, in the order farewell, time query, greeting, how-are-you, and
\* the fallback when none does.
FirstMatch(message) ==
    IF detect_goodbye(message) THEN "farewell"
    ELSE IF detect_time_request(message) THEN "time query"
    ELSE IF detect_greeting(message) THEN "greeting"
    ELSE IF detect_how_are_you(message) THEN "how are you"
    ELSE "fallback"

\* The variants of an intent, for a stored name (or None) and a clock
\* reading.
VariantsOf(intent, name, now) ==
    CASE intent = "farewell" -> choices(goodbye_responses(name))
      [] intent = "time query" -> choices(time_responses(name, now))
      [] intent = "greeting" -> choices(greeting_responses(name))
      [] intent = "how are you" -> choices(how_are_you_responses(name))
      [] intent = "fallback" -> choices(default_responses(name))

\* reply is a variant of the first intent that matches message.
FirstMatchReply(name, message, reply) ==
    \A intent \in { FirstMatch(message) } :
        \E now \in Clock : reply \in VariantsOf(intent, name, now)

\* C3: name extraction is attempted on the first turn only: after a first
\* turn that extracted no name (the conversation is started and user_name is
\* None), every step leaves user_name None, and every turn is answered by
\* the intent chain with no name, whatever its input introduces.
C3_NoRetryAfterFailedExtraction ==
    [][ (conversation_started /\ user_name = None) =>
            /\ user_name' = None
            /\ TurnProcessed =>
                  \A message \in { SentMessage }, reply \in { Reply } :
                      FirstMatchReply(None, message, reply) ]_vars

\* C3's case: the first turn extracted no name, the second turn introduced a
\* name with a lead-in phrase, and no name is stored.
C3_Witness ==
    /\ Turns >= 2
    /\ BotBlock(1).message = no_name_response
    /\ any_in(lower(UserBlock(2).message), name_patterns)
    /\ detect_name_in_message(UserBlock(2).message) # None
    /\ user_name = None

\* C4: on the first turn no intent detector decides the reply: it is one of
\* the four name acknowledgments when a name is extracted from the input and
\* the fixed "didn't catch your name" text otherwise.
C4_FirstTurnSkipsIntents ==
    [][ (TurnProcessed /\ Turns = 0) =>
            \A extracted \in { detect_name_in_message(SentMessage) } :
                IF extracted # None
                THEN Reply \in
                        { << "Nice to meet you, " >> \o extracted
                              \o << "! [smile] How can I help you today?" >>,
                          << "Great to meet you, " >> \o extracted
                              \o << "! I'm excited to chat with you!" >>,
                          << "Hello " >> \o extracted
                              \o << "! What a lovely name. What would you like to talk about?" >>,
                          << "Wonderful, " >> \o extracted
                              \o << "! Thanks for introducing yourself. How are you doing today?" >> }
                ELSE Reply = no_name_response ]_vars

\* C4's case: the first input contains a farewell phrase and a greeting
\* phrase, and no name was extracted from it.
C4_Witness ==
    /\ Turns >= 1
    /\ detect_goodbye(UserBlock(1).message)
    /\ detect_greeting(UserBlock(1).message)
    /\ BotBlock(1).message = no_name_response

\* C5: every turn after the first is answered from the variants of the first
\* detector that matches in the order farewell, time query, greeting,
\* how-are-you, fallback.
C5_FirstMatchingIntentReplies ==
    [][ (TurnProcessed /\ Turns >= 1) =>
            \A name \in { user_name }, message \in { SentMessage }, reply \in { Reply } :
                FirstMatchReply(name, message, reply) ]_vars

\* C5's case: a later turn whose input matches the greeting detector and the
\* farewell detector got a farewell reply.
C5_Witness ==
    /\ Turns >= 2
    /\ detect_greeting(UserBlock(2).message)
    /\ detect_goodbye(UserBlock(2).message)
    /\ BotBlock(2).message \in choices(goodbye_responses(user_name))

(***************************************************************************)
(* detect_name_in_message as the properties C6 and C7 describe it.          *)
(***************************************************************************)
\* The k-th lead-in phrase occurs in the message.
LeadInOccurs(message, k) == contains(lower(message), name_patterns[k])

\* Some lead-in phrase occurs in the message.
HasLeadIn(message) ==
    \E k \in 1 .. Len(name_patterns) : LeadInOccurs(message, k)

\* The first whitespace-delimited token that follows the first occurrence of
\* the k-th lead-in phrase; empty when nothing follows it.
TokenAfter(message, k) ==
    LET pattern == name_patterns[k]
        after == find(lower(message), pattern) + Len(pattern)
    IN  first_token(lstrip(SubSeq(message, after + 1, Len(message)), Whitespace))

\* The candidate of the k-th phrase: the token with .,!? stripped from both
\* ends.
Candidate(message, k) == strip(TokenAfter(message, k), NamePunctuation)

\* The k-th phrase occurs and its candidate is alphabetic.
YieldsName(message, k) ==
    LeadInOccurs(message, k) /\ isalpha(Candidate(message, k))

\* The first phrase of the ordered list that occurs in the message.
FirstLeadIn(message) ==
    CHOOSE k \in 1 .. Len(name_patterns) :
        /\ LeadInOccurs(message, k)
        /\ \A j \in 1 .. (k - 1) : ~LeadInOccurs(message, j)

\* C6: the whole-input rule is applied if and only if no lead-in phrase
\* occurs in the input, and then accepts exactly the inputs of at most two
\* tokens that are alphabetic once the spaces are removed; an input with a
\* lead-in phrase and no acceptable token after any lead-in phrase yields no
\* name.
C6_WholeInputOnlyWithoutLeadIn ==
    probe.done =>
        LET message == strip(probe.input, Whitespace)
        IN  /\ ~HasLeadIn(message) =>
                  probe.name =
                      IF Len(split(message)) <= 2 /\ isalpha(remove_spaces(message))
                      THEN title(message)
                      ELSE None
            /\ ( /\ HasLeadIn(message)
                 /\ \A k \in 1 .. Len(name_patterns) : ~YieldsName(message, k) )
                   => probe.name = None

\* C7, as stated: the candidate is the token after the first phrase of the
\* ordered list that occurs, with trailing .,!? stripped; it is returned
\* title-cased when it is alphabetic, and when it is not, no name is taken
\* from a later phrase of the list.
C7_OnlyFirstLeadInTried ==
    (probe.done /\ HasLeadIn(strip(probe.input, Whitespace))) =>
        LET message == strip(probe.input, Whitespace)
            first == FirstLeadIn(message)
            candidate == rstrip(TokenAfter(message, first), NamePunctuation)
        IN  IF isalpha(candidate)
            THEN probe.name = title(candidate)
            ELSE \A k \in (first + 1) .. Len(name_patterns) :
                    YieldsName(message, k) =>
                        probe.name # title(Candidate(message, k))

\* C7, amended: the phrases of the ordered list that occur are tried in the
\* order of the list; the candidate of a phrase is the token after its first
\* occurrence with .,!? stripped from both ends; the first candidate that is
\* alphabetic is returned title-cased, so a phrase whose candidate is missing
\* or not alphabetic hands over to the later phrases.
C7_FirstAlphabeticCandidate ==
    probe.done =>
        LET message == strip(probe.input, Whitespace)
        IN  \A k \in 1 .. Len(name_patterns) :
                ( /\ YieldsName(message, k)
                  /\ \A j \in 1 .. (k - 1) : ~YieldsName(message, j) )
                    => probe.name = title(Candidate(message, k))

\* C7's case: the first phrase that occurs has a candidate that is not
\* alphabetic, and the name returned is the candidate of a later phrase.
C7_Witness ==
    /\ probe.done
    /\ HasLeadIn(strip(probe.input, Whitespace))
    /\ LET message == strip(probe.input, Whitespace)
           first == FirstLeadIn(message)
       IN  /\ ~YieldsName(message, first)
           /\ \E k \in (first + 1) .. Len(name_patterns) :
                 /\ YieldsName(message, k)
                 /\ probe.name = title(Candidate(message, k))

(***************************************************************************)
(* The session after the first turn.                                        *)
(***************************************************************************)
\* C8: once the conversation is started it stays started; a turn after the
\* first, whatever intent matches, leaves user_name and conversation_started
\* as they were and the window open; the window is destroyed only by the
\* step that answers the quit prompt.
C8_ConversingIsTerminal ==
    [][ /\ conversation_started => conversation_started'
        /\ (conversation_started /\ TurnProcessed) =>
              /\ user_name' = user_name
              /\ conversation_started' = conversation_started
              /\ running'
              /\ dialog' = dialog
        /\ (running /\ ~running') => dialog = "Quit" ]_vars

\* C8's case: a later turn got a farewell reply and the session is open.
C8_Witness ==
    /\ Turns >= 2
    /\ detect_goodbye(UserBlock(Turns).message)
    /\ BotBlock(Turns).message \in choices(goodbye_responses(user_name))
    /\ conversation_started
    /\ running
    /\ dialog = "none"

\* C9: a send of a blank text is rejected before the engine is called: the
\* step that opens the "Empty Message" warning leaves user_name,
\* conversation_started, the chat display and the log as they were, and a
\* step that displays a turn displays a message that is not blank.
C9_BlankInputRejected ==
    [][ /\ dialog' = "Empty Message" =>
              UNCHANGED << user_name, conversation_started, chat_display, log_file >>
        /\ TurnProcessed => ~IsBlank(SentMessage) ]_vars

\* C9's case: a blank first send was rejected, the warning is open and the
\* name-collection turn is still to come.
C9_Witness ==
    /\ dialog = "Empty Message"
    /\ Turns = 0
    /\ user_name = None
    /\ ~conversation_started

\* The four farewell texts with the name slot filled by slot.
FarewellTexts(slot) ==
    { << "Goodbye" >> \o slot \o << "! It was wonderful chatting with you! [wave]" >>,
      << "See you later" >> \o slot \o << "! Have a fantastic day! [smile]" >>,
      << "Bye" >> \o slot \o << "! Thanks for the great conversation!" >>,
      << "Take care" >> \o slot \o << "! Chat with me again anytime!" >> }

\* C10: on a turn after the first, an input that matches the farewell
\* detector is answered with one of the four farewell texts; with a stored
\* name N the slot is ", N" and the reply contains N, with no stored name the
\* slot is empty.
C10_FarewellCarriesName ==
    [][ (TurnProcessed /\ Turns >= 1) =>
            \A name \in { user_name }, message \in { SentMessage }, reply \in { Reply } :
                detect_goodbye(message) =>
                    IF name # None
                    THEN /\ reply \in FarewellTexts(<< ", " >> \o name)
                         /\ HasPart(reply, name)
                    ELSE reply \in FarewellTexts(<< >>) ]_vars

\* C10's case: a name is stored and a later turn matched the farewell
\* detector.
C10_Witness ==
    /\ Turns >= 2
    /\ user_name # None
    /\ detect_goodbye(UserBlock(2).message)

(***************************************************************************)
(* The log of a turn.                                                       *)
(***************************************************************************)
LogLine(sender, message) == [ sender |-> sender, message |-> message ]

\* The label of the user's line: the name stored when the turn begins, or
\* "You" when none is stored.
StoredLabel(name) == IF name # None THEN name ELSE << "You" >>

\* The lines a turn adds to the log when the write of the user's line
\* succeeds as first says and the write of the reply as second says.
TurnLines(first, second, name, message, reply) ==
    (IF first THEN << LogLine(StoredLabel(name), message) >> ELSE << >>)
        \o (IF second THEN << LogLine(bot_name, reply) >> ELSE << >>)

\* C11 as stated: every accepted send appends exactly two lines to the log,
\* the user's message under the name stored before the turn ("You" when
\* none) and then the bot's reply.
C11_TwoLogEntriesPerSend ==
    [][ TurnProcessed =>
            \A message \in { SentMessage }, reply \in { Reply } :
                log_file' = log_file \o TurnLines(TRUE, TRUE, user_name, message, reply) ]_vars

\* C11, amended: an accepted send appends to the log, in this order, the
\* user's message if its write succeeds and the bot's reply if its write
\* succeeds, and nothing else; the user's line is labelled with the name
\* stored before the turn ("You" when none, so also on the turn that
\* introduces the name); and whether the writes fail or not, the turn shows
\* both blocks in the chat window and leaves the name, the conversation flag
\* and the reply that generate_response gives for the stored state and the
\* message.
C11_WrittenEntriesInOrder ==
    [][ TurnProcessed =>
            \A message \in { SentMessage }, reply \in { Reply } :
                /\ log_file' = log_file \o TurnLines(log_writable, log_writable',
                                                     user_name, message, reply)
                /\ chat_display'[Len(chat_display') - 1].sender = StoredLabel(user_name)
                /\ \E now \in Clock :
                       Outcome(user_name', conversation_started', reply)
                           \in generate_response(user_name, conversation_started,
                                                 message, now)
                /\ UNCHANGED << dialog, running >> ]_vars

\* C11's case: the first turn introduced the name and both its lines were
\* written, the user's under "You"; the second turn's message was written
\* under the captured name and the write of its reply failed, yet the reply
\* is in the chat window.
C11_Witness ==
    /\ Turns = 2
    /\ user_name # None
    /\ Len(log_file) = 5
    /\ log_file[3] = LogLine(<< "You" >>, UserBlock(1).message)
    /\ log_file[4] = LogLine(bot_name, BotBlock(1).message)
    /\ log_file[5] = LogLine(user_name, UserBlock(2).message)
    /\ BotBlock(2).sender = bot_name

=============================================================================
